---- MODULE Spec2Model ----
(***************************************************************************)
(* The secp256r1 precompile of sdk/src/secp256r1_instruction.rs: the       *)
(* instruction builder new_secp256r1_instruction, the verifier verify and  *)
(* its slice resolver get_data_slice, driven by the payloads a transaction *)
(* can carry (built, built and then modified in one byte, or crafted).     *)
(*                                                                         *)
(* Buffers are sequences of bytes (0..255); Rust's 0-based half-open range *)
(* buf[start..end] is SliceOf(buf, start, end).  The 256-bit scalars r, s  *)
(* and the curve order are 32-byte big-endian sequences, compared and      *)
(* subtracted bytewise as OpenSSL's BigNum does on the integers they       *)
(* denote.  The elliptic-curve library is outside the repository: signing  *)
(* yields scalars the model draws from SignerScalars, the ECDSA primitive  *)
(* accepts exactly what was signed (and its n - s twin), and decoding a    *)
(* compressed point that no key of the model owns is left open (oracle).   *)
(***************************************************************************)
EXTENDS Integers, Sequences, FiniteSets, TLC

\* ------------------------------------------------------------ bounds
\* longest message the builder is given, besides the one of 65536 bytes
MaxMsgLen == 2
\* most offsets records in a crafted multi-record payload
MaxSigs == 3

\* --------------------------------------------------------- constants
COMPRESSED_PUBKEY_SERIALIZED_SIZE == 33
SIGNATURE_SERIALIZED_SIZE == 64
SIGNATURE_OFFSETS_SERIALIZED_SIZE == 14
SIGNATURE_OFFSETS_START == 2
DATA_START == SIGNATURE_OFFSETS_SERIALIZED_SIZE + SIGNATURE_OFFSETS_START
U16_MAX == 65535
\* usize::MAX is at least 2^32 - 1; 2^31 - 1 stands for it (no operand of the
\* program's saturating arithmetic exceeds 2^17, so neither saturates).
USIZE_MAX == 2147483647

Ok == "Ok"
InvalidInstructionDataSize == "InvalidInstructionDataSize"
InvalidDataOffsets == "InvalidDataOffsets"
InvalidSignature == "InvalidSignature"
InvalidPublicKey == "InvalidPublicKey"
\* an index outside a slice or a slice outside its buffer: a Rust panic
Panic == "Panic"
PrecompileError ==
    {InvalidInstructionDataSize, InvalidDataOffsets, InvalidSignature, InvalidPublicKey}

\* ------------------------------------------------------------ bytes
Zeros(n) == [k \in 1..n |-> 0]
Fill(n, b) == [k \in 1..n |-> b]
\* buf[start..end] (0-based, end exclusive), for a range within buf
SliceOf(buf, start, end) == SubSeq(buf, start + 1, end)
\* whether Rust evaluates buf[start..end] without panicking
InBounds(buf, start, end) == start <= end /\ end <= Len(buf)
SetByte(buf, index, value) == [buf EXCEPT ![index + 1] = value]

saturating_add(a, b) == IF a + b > USIZE_MAX THEN USIZE_MAX ELSE a + b
saturating_mul(a, b) == IF a * b > USIZE_MAX THEN USIZE_MAX ELSE a * b
\* `x as u16`
AsU16(x) == x % (U16_MAX + 1)

\* ---------------------------------------------------------- bignums
\* comparison of two big-endian byte strings of one length, from byte k on:
\* -1, 0, 1
RECURSIVE BnCmpFrom(_, _, _)
BnCmpFrom(a, b, k) ==
    IF k > Len(a) THEN 0
    ELSE IF a[k] < b[k] THEN -1
    ELSE IF a[k] > b[k] THEN 1
    ELSE BnCmpFrom(a, b, k + 1)
BnCmp(a, b) == BnCmpFrom(a, b, 1)
BnGt(a, b) == BnCmp(a, b) = 1
BnLt(a, b) == BnCmp(a, b) = -1
\* the bytes 1..k of a - b, given the borrow out of byte k
RECURSIVE BnSubFrom(_, _, _, _)
BnSubFrom(a, b, k, borrow) ==
    IF k = 0 THEN <<>>
    ELSE LET d == a[k] - b[k] - borrow
         IN  Append(BnSubFrom(a, b, k - 1, IF d < 0 THEN 1 ELSE 0), (d + 256) % 256)
\* a - b for a >= b
BnSub(a, b) == BnSubFrom(a, b, Len(a), 0)
\* a >> 1
BnRshift1(a) ==
    [k \in 1..Len(a) |->
        (a[k] \div 2) + (IF k > 1 THEN (a[k - 1] % 2) * 128 ELSE 0)]
\* BigNum::from_u32
BnFromU32(v) == Zeros(31) \o <<v>>

\* the order n of the group of X9_62_PRIME256V1 (P-256)
order ==
    << 255, 255, 255, 255,   0,   0,   0,   0,
       255, 255, 255, 255, 255, 255, 255, 255,
       188, 230, 250, 173, 167,  23, 158, 132,
       243, 185, 202, 194, 252,  99,  37,  81 >>
half_order == BnRshift1(order)
one == BnFromU32(1)
n_minus_one == BnSub(order, one)

\* ------------------------------------------------ the offsets record
\* bytes_of(&u16) on a little-endian target
bytes_of_u16(v) == <<v % 256, v \div 256>>
u16_from_bytes(buf, at) == buf[at + 1] + 256 * buf[at + 2]
\* bytes_of(&Secp256r1SignatureOffsets): the seven fields in declaration order
bytes_of(offsets) ==
    bytes_of_u16(offsets.signature_offset)
        \o bytes_of_u16(offsets.signature_instruction_index)
        \o bytes_of_u16(offsets.public_key_offset)
        \o bytes_of_u16(offsets.public_key_instruction_index)
        \o bytes_of_u16(offsets.message_data_offset)
        \o bytes_of_u16(offsets.message_data_size)
        \o bytes_of_u16(offsets.message_instruction_index)
\* bytemuck::try_from_bytes::<Secp256r1SignatureOffsets> succeeds on a slice of
\* the record's size at an address aligned for u16; a payload lives in a Vec,
\* allocated at an even address, so the slice at offset `at` is aligned iff
\* `at` is even.
try_from_bytes_ok(raw, at) ==
    Len(raw) = SIGNATURE_OFFSETS_SERIALIZED_SIZE /\ at % 2 = 0
try_from_bytes(raw) ==
    [ signature_offset             |-> u16_from_bytes(raw, 0),
      signature_instruction_index  |-> u16_from_bytes(raw, 2),
      public_key_offset            |-> u16_from_bytes(raw, 4),
      public_key_instruction_index |-> u16_from_bytes(raw, 6),
      message_data_offset          |-> u16_from_bytes(raw, 8),
      message_data_size            |-> u16_from_bytes(raw, 10),
      message_instruction_index    |-> u16_from_bytes(raw, 12) ]
\* Secp256r1SignatureOffsets::default()
DefaultOffsets ==
    [ signature_offset |-> 0, signature_instruction_index |-> 0,
      public_key_offset |-> 0, public_key_instruction_index |-> 0,
      message_data_offset |-> 0, message_data_size |-> 0,
      message_instruction_index |-> 0 ]

\* ------------------------------------------- the elliptic-curve library
SigningKeys == {1, 2}
\* the key that signs the transaction's messages
Signers == {1}
\* VerifyingKey::from(signer).to_encoded_point(true): 02 or 03, then x
VerifyingKey(signer) == <<1 + signer>> \o Fill(32, 160 + signer)
KnownPoints == {VerifyingKey(k) : k \in SigningKeys}
\* scalars the signer emits: r, and s before normalisation (low, high, n >> 1)
SignerR == Fill(16, 34) \o Fill(16, 51)
SignerLowS == Fill(31, 17) \o <<97>>
SignerScalars ==
    {[r |-> SignerR, s |-> sv] :
        sv \in {SignerLowS, BnSub(order, SignerLowS), half_order}}
\* Signature::normalize_s().unwrap_or(signature): n - s for s above n >> 1
normalize_s(s) == IF BnGt(s, half_order) THEN BnSub(order, s) ELSE s
\* EcPoint::from_bytes on 33 bytes: a compressed point (02 or 03, then an x on
\* the curve).  The keys of the model decode; for any other x, `oracle` says
\* whether it lies on the curve.
EcPoint_from_bytes(pubkey, oracle) ==
    \/ pubkey \in KnownPoints
    \/ pubkey[1] \in {2, 3} /\ oracle
\* Verifier::verify over SHA-256 of the message: accepts what the key signed,
\* with s or n - s (ECDSA accepts both)
ecdsa_verify(signed, pubkey, message, r, s) ==
    \E t \in signed :
        /\ t.pubkey = pubkey
        /\ t.message = message
        /\ t.r = r
        /\ (t.s = s \/ BnSub(order, t.s) = s)

\* ------------------------------------------------------- the builder
new_secp256r1_instruction(signer, message, sig) ==
    LET signature == sig.r \o normalize_s(sig.s)
        pubkey == VerifyingKey(signer)
        public_key_offset == DATA_START
        signature_offset ==
            saturating_add(public_key_offset, COMPRESSED_PUBKEY_SERIALIZED_SIZE)
        message_data_offset ==
            saturating_add(signature_offset, SIGNATURE_SERIALIZED_SIZE)
        offsets ==
            [ signature_offset             |-> AsU16(signature_offset),
              signature_instruction_index  |-> U16_MAX,
              public_key_offset            |-> AsU16(public_key_offset),
              public_key_instruction_index |-> U16_MAX,
              message_data_offset          |-> AsU16(message_data_offset),
              message_data_size            |-> AsU16(Len(message)),
              message_instruction_index    |-> U16_MAX ]
    IN  <<1, 0>> \o bytes_of(offsets) \o pubkey \o signature \o message

\* ------------------------------------------------------ the resolver
\* get_data_slice with the index compared by > where the code has >=: the
\* index equal to the number of instructions then indexes past the list
get_data_slice_index_gt(data, instruction_datas, instruction_index, offset_start, size) ==
    IF instruction_index # U16_MAX /\ instruction_index > Len(instruction_datas)
    THEN [err |-> InvalidDataOffsets, bytes |-> <<>>, acc |-> {}]
    ELSE IF instruction_index # U16_MAX /\ instruction_index = Len(instruction_datas)
    THEN [err |-> Panic, bytes |-> <<>>, acc |-> {}]
    ELSE LET instruction == IF instruction_index = U16_MAX
                            THEN data
                            ELSE instruction_datas[instruction_index + 1]
             start == offset_start
             end == saturating_add(start, size)
         IN  IF end > Len(instruction)
             THEN [err |-> InvalidDataOffsets, bytes |-> <<>>, acc |-> {}]
             ELSE [err |-> Ok, bytes |-> SliceOf(instruction, start, end),
                   acc |-> {<<"slice", Len(instruction), start, end>>}]

\* get_data_slice with the end compared by >= where the code has >
get_data_slice_end_ge(data, instruction_datas, instruction_index, offset_start, size) ==
    IF instruction_index # U16_MAX /\ instruction_index >= Len(instruction_datas)
    THEN [err |-> InvalidDataOffsets, bytes |-> <<>>, acc |-> {}]
    ELSE LET instruction == IF instruction_index = U16_MAX
                            THEN data
                            ELSE instruction_datas[instruction_index + 1]
             start == offset_start
             end == saturating_add(start, size)
         IN  IF end >= Len(instruction)
             THEN [err |-> InvalidDataOffsets, bytes |-> <<>>, acc |-> {}]
             ELSE IF InBounds(instruction, start, end)
             THEN [err |-> Ok, bytes |-> SliceOf(instruction, start, end),
                   acc |-> {<<"slice", Len(instruction), start, end>>}]
             ELSE [err |-> Panic, bytes |-> <<>>,
                   acc |-> {<<"slice", Len(instruction), start, end>>}]


\* get_data_slice with the end computed in u16, wrapping, where the code
\* saturates in usize
get_data_slice_wrapping(data, instruction_datas, instruction_index, offset_start, size) ==
    IF instruction_index # U16_MAX /\ instruction_index >= Len(instruction_datas)
    THEN [err |-> InvalidDataOffsets, bytes |-> <<>>, acc |-> {}]
    ELSE LET instruction == IF instruction_index = U16_MAX
                            THEN data
                            ELSE instruction_datas[instruction_index + 1]
             start == offset_start
             end == AsU16(start + size)
         IN  IF end > Len(instruction)
             THEN [err |-> InvalidDataOffsets, bytes |-> <<>>, acc |-> {}]
             ELSE IF InBounds(instruction, start, end)
             THEN [err |-> Ok, bytes |-> SliceOf(instruction, start, end),
                   acc |-> {<<"slice", Len(instruction), start, end>>}]
             ELSE [err |-> Panic, bytes |-> <<>>,
                   acc |-> {<<"slice", Len(instruction), start, end>>}]


\* get_data_slice: err, the slice, and the range taken, as <<"slice", buffer
\* length, start, end>> (acc; empty when no range is taken)
get_data_slice(data, instruction_datas, instruction_index, offset_start, size) ==
    IF instruction_index # U16_MAX /\ instruction_index >= Len(instruction_datas)
    THEN [err |-> InvalidDataOffsets, bytes |-> <<>>, acc |-> {}]
    ELSE LET instruction == IF instruction_index = U16_MAX
                            THEN data
                            ELSE instruction_datas[instruction_index + 1]
             start == offset_start
             end == saturating_add(start, size)
         IN  IF end > Len(instruction)
             THEN [err |-> InvalidDataOffsets, bytes |-> <<>>, acc |-> {}]
             ELSE IF InBounds(instruction, start, end)
             THEN [err |-> Ok, bytes |-> SliceOf(instruction, start, end),
                   acc |-> {<<"slice", Len(instruction), start, end>>}]
             ELSE [err |-> Panic, bytes |-> <<>>,
                   acc |-> {<<"slice", Len(instruction), start, end>>}]

\* ------------------------------------------------------ the verifier
\* verify_signature without the test of the primitive's answer
verify_signature_result_unchecked(signature, pubkey, message, signed, oracle) ==
    IF Len(signature) < 32 THEN Panic
    ELSE LET r_bignum == SliceOf(signature, 0, 32)
             s_bignum == SliceOf(signature, 32, Len(signature))
             within_order_minus_one ==
                 /\ BnGt(r_bignum, one) /\ BnLt(r_bignum, n_minus_one)
                 /\ BnGt(s_bignum, one) /\ BnLt(s_bignum, n_minus_one)
         IN  IF ~within_order_minus_one THEN InvalidSignature
             ELSE IF BnGt(s_bignum, half_order) THEN InvalidSignature
             ELSE IF ~EcPoint_from_bytes(pubkey, oracle) THEN InvalidPublicKey
             ELSE Ok


\* verify_signature with the bounds 1 and n - 1 allowed
verify_signature_nonstrict(signature, pubkey, message, signed, oracle) ==
    IF Len(signature) < 32 THEN Panic
    ELSE LET r_bignum == SliceOf(signature, 0, 32)
             s_bignum == SliceOf(signature, 32, Len(signature))
             within_order_minus_one ==
                 /\ ~BnLt(r_bignum, one) /\ ~BnGt(r_bignum, n_minus_one)
                 /\ ~BnLt(s_bignum, one) /\ ~BnGt(s_bignum, n_minus_one)
         IN  IF ~within_order_minus_one THEN InvalidSignature
             ELSE IF BnGt(s_bignum, half_order) THEN InvalidSignature
             ELSE IF ~EcPoint_from_bytes(pubkey, oracle) THEN InvalidPublicKey
             ELSE IF ~ecdsa_verify(signed, pubkey, message, r_bignum, s_bignum)
             THEN InvalidSignature
             ELSE Ok


\* verify_signature without the low-S rule
verify_signature_any_s(signature, pubkey, message, signed, oracle) ==
    IF Len(signature) < 32 THEN Panic
    ELSE LET r_bignum == SliceOf(signature, 0, 32)
             s_bignum == SliceOf(signature, 32, Len(signature))
             within_order_minus_one ==
                 /\ BnGt(r_bignum, one) /\ BnLt(r_bignum, n_minus_one)
                 /\ BnGt(s_bignum, one) /\ BnLt(s_bignum, n_minus_one)
         IN  IF ~within_order_minus_one THEN InvalidSignature
             ELSE IF ~EcPoint_from_bytes(pubkey, oracle) THEN InvalidPublicKey
             ELSE IF ~ecdsa_verify(signed, pubkey, message, r_bignum, s_bignum)
             THEN InvalidSignature
             ELSE Ok


\* the checks of lines 153-198 on the resolved signature, key and message
verify_signature(signature, pubkey, message, signed, oracle) ==
    IF Len(signature) < 32 THEN Panic
    ELSE LET r_bignum == SliceOf(signature, 0, 32)
             s_bignum == SliceOf(signature, 32, Len(signature))
             within_order_minus_one ==
                 /\ BnGt(r_bignum, one) /\ BnLt(r_bignum, n_minus_one)
                 /\ BnGt(s_bignum, one) /\ BnLt(s_bignum, n_minus_one)
         IN  IF ~within_order_minus_one THEN InvalidSignature
             ELSE IF BnGt(s_bignum, half_order) THEN InvalidSignature
             ELSE IF ~EcPoint_from_bytes(pubkey, oracle) THEN InvalidPublicKey
             ELSE IF ~ecdsa_verify(signed, pubkey, message, r_bignum, s_bignum)
             THEN InvalidSignature
             ELSE Ok

\* where record i starts in the payload
record_start(i) ==
    saturating_add(saturating_mul(i, SIGNATURE_OFFSETS_SERIALIZED_SIZE),
                   SIGNATURE_OFFSETS_START)

\* one iteration of the loop of verify, on record i: its result (Ok: go on to
\* the next record) and the ranges it took
verify_record(data, instruction_datas, i, signed, oracle) ==
    LET start == record_start(i)
        end == saturating_add(start, SIGNATURE_OFFSETS_SERIALIZED_SIZE)
        recAcc == {<<"record", Len(data), start, end>>}
    IN  IF ~InBounds(data, start, end) THEN [res |-> Panic, acc |-> recAcc]
        ELSE IF ~try_from_bytes_ok(SliceOf(data, start, end), start)
        THEN [res |-> InvalidDataOffsets, acc |-> recAcc]
        ELSE
        LET offsets == try_from_bytes(SliceOf(data, start, end))
            signature == get_data_slice(data, instruction_datas,
                             offsets.signature_instruction_index,
                             offsets.signature_offset,
                             SIGNATURE_SERIALIZED_SIZE)
            pubkey == get_data_slice(data, instruction_datas,
                             offsets.public_key_instruction_index,
                             offsets.public_key_offset,
                             COMPRESSED_PUBKEY_SERIALIZED_SIZE)
            message == get_data_slice(data, instruction_datas,
                             offsets.message_instruction_index,
                             offsets.message_data_offset,
                             offsets.message_data_size)
        IN  IF signature.err # Ok
            THEN [res |-> signature.err, acc |-> recAcc \cup signature.acc]
            ELSE IF pubkey.err # Ok
            THEN [res |-> pubkey.err,
                  acc |-> recAcc \cup signature.acc \cup pubkey.acc]
            ELSE IF message.err # Ok
            THEN [res |-> message.err,
                  acc |-> recAcc \cup signature.acc \cup pubkey.acc \cup message.acc]
            ELSE [res |-> verify_signature(signature.bytes, pubkey.bytes,
                                           message.bytes, signed, oracle),
                  acc |-> recAcc \cup signature.acc \cup pubkey.acc
                          \cup message.acc
                          \cup {<<"split", Len(signature.bytes), 0, 32>>,
                                <<"split", Len(signature.bytes), 32,
                                  Len(signature.bytes)>>}]

\* verify_header without the test for bytes after a count of zero
verify_header_zero_unchecked(data) ==
    IF Len(data) < SIGNATURE_OFFSETS_START THEN InvalidInstructionDataSize
    ELSE LET num_signatures == data[1]
             expected_data_size ==
                 saturating_add(
                     saturating_mul(num_signatures, SIGNATURE_OFFSETS_SERIALIZED_SIZE),
                     SIGNATURE_OFFSETS_START)
         IN  IF Len(data) < expected_data_size
             THEN InvalidInstructionDataSize
             ELSE Ok


\* verify_header with the count read from both bytes of the header
verify_header_u16_count(data) ==
    IF Len(data) < SIGNATURE_OFFSETS_START THEN InvalidInstructionDataSize
    ELSE LET num_signatures == u16_from_bytes(data, 0)
             expected_data_size ==
                 saturating_add(
                     saturating_mul(num_signatures, SIGNATURE_OFFSETS_SERIALIZED_SIZE),
                     SIGNATURE_OFFSETS_START)
         IN  IF num_signatures = 0 /\ Len(data) > SIGNATURE_OFFSETS_START
             THEN InvalidInstructionDataSize
             ELSE IF Len(data) < expected_data_size
             THEN InvalidInstructionDataSize
             ELSE Ok


\* the size checks of lines 102-115: an error, or Ok to enter the loop
verify_header(data) ==
    IF Len(data) < SIGNATURE_OFFSETS_START THEN InvalidInstructionDataSize
    ELSE LET num_signatures == data[1]
             expected_data_size ==
                 saturating_add(
                     saturating_mul(num_signatures, SIGNATURE_OFFSETS_SERIALIZED_SIZE),
                     SIGNATURE_OFFSETS_START)
         IN  IF num_signatures = 0 /\ Len(data) > SIGNATURE_OFFSETS_START
             THEN InvalidInstructionDataSize
             ELSE IF Len(data) < expected_data_size
             THEN InvalidInstructionDataSize
             ELSE Ok

\* the loop of lines 116-200 from record i on
RECURSIVE verify_from(_, _, _, _, _)
verify_from(data, instruction_datas, i, signed, oracle) ==
    IF i >= data[1] THEN Ok
    ELSE LET rec == verify_record(data, instruction_datas, i, signed, oracle)
         IN  IF rec.res # Ok THEN rec.res
             ELSE verify_from(data, instruction_datas, i + 1, signed, oracle)

\* verify(data, instruction_datas, _feature_set)
verify(data, instruction_datas, signed, oracle) ==
    IF verify_header(data) # Ok THEN verify_header(data)
    ELSE verify_from(data, instruction_datas, 0, signed, oracle)

\* ------------------------------------------------------------ state
VARIABLES
    data,               \* the precompile instruction's data
    instruction_datas,  \* the data of every instruction of the transaction
    signed,             \* what the keys of the model have signed
    origin,             \* how data came about: built, tampered, crafted
    index,              \* the index of the byte a tampering changed
    oracle,             \* whether a point no key of the model owns decodes
    pc,                 \* input, built, ready, loop, done
    i,                  \* the loop variable of verify
    result,             \* what verify returned
    accesses            \* every range verify has taken: <<kind, length, start, end>>
vars == <<data, instruction_datas, signed, origin, index, oracle, pc, i, result,
          accesses>>

\* the messages signed: every one up to MaxMsgLen bytes, and one of
\* u16::MAX + 1 bytes
Messages == {Fill(n, 97) : n \in 0..MaxMsgLen} \cup {Zeros(U16_MAX + 1)}
\* the increments a tampering adds to a byte of the key, signature or message
\* (12 is the test's); a byte of the header or the record takes every value
TamperDeltas == {1, 12, 128, 255}

Init ==
    /\ data = <<>>
    /\ instruction_datas = <<>>
    /\ signed = {}
    /\ origin = "none"
    /\ index = 0
    /\ oracle = FALSE
    /\ pc = "input"
    /\ i = 0
    /\ result = "None"
    /\ accesses = {}

\* new_secp256r1_instruction(&privkey, message), placed alone in a transaction
Build(signer, message, sig) ==
    /\ pc = "input"
    /\ data' = new_secp256r1_instruction(signer, message, sig)
    /\ instruction_datas' = <<data'>>
    /\ signed' = {[pubkey |-> VerifyingKey(signer), message |-> message,
                   r |-> sig.r, s |-> normalize_s(sig.s)]}
    /\ origin' = "built"
    /\ pc' = "built"
    /\ UNCHANGED <<index, oracle, i, result, accesses>>

\* the indexes a tampering picks from (gen_range(0, instruction.data.len())); the
\* payload of the 65536-byte message is left as built
TamperIndexes ==
    IF Len(data) <= DATA_START + COMPRESSED_PUBKEY_SERIALIZED_SIZE
                        + SIGNATURE_SERIALIZED_SIZE + MaxMsgLen
    THEN 0..(Len(data) - 1)
    ELSE {}

\* instruction.data[index] = value, for a value other than the byte's, and the
\* transaction rebuilt around the modified instruction
Tamper(at, value) ==
    /\ pc = "built"
    /\ at \in TamperIndexes
    /\ at # 1
    /\ value # data[at + 1]
    /\ \/ at < DATA_START
       \/ \E d \in TamperDeltas : value = (data[at + 1] + d) % 256
    /\ data' = SetByte(data, at, value)
    /\ instruction_datas' = <<data'>>
    /\ origin' = "tampered"
    /\ index' = at
    /\ pc' = "ready"
    /\ UNCHANGED <<signed, oracle, i, result, accesses>>

\* a payload of len bytes, zero but for its first two, beside `siblings`
CraftSized(num, pad, len, siblings) ==
    /\ pc = "input"
    /\ data' = SubSeq(<<num, pad>> \o Zeros(len), 1, len)
    /\ instruction_datas' = siblings
    /\ origin' = "crafted"
    /\ pc' = "ready"
    /\ UNCHANGED <<signed, index, oracle, i, result, accesses>>

\* ------------------------------------------------- crafted payloads
\* the offsets the builder writes for a message of len bytes
BuilderOffsets(len) ==
    [ signature_offset             |-> DATA_START + COMPRESSED_PUBKEY_SERIALIZED_SIZE,
      signature_instruction_index  |-> U16_MAX,
      public_key_offset            |-> DATA_START,
      public_key_instruction_index |-> U16_MAX,
      message_data_offset          |-> DATA_START + COMPRESSED_PUBKEY_SERIALIZED_SIZE
                                           + SIGNATURE_SERIALIZED_SIZE,
      message_data_size            |-> len,
      message_instruction_index    |-> U16_MAX ]
\* a one-record payload in the builder's layout
Layout(pad, offsets, pubkey, signature, message) ==
    <<1, pad>> \o bytes_of(offsets) \o pubkey \o signature \o message
\* what signer 1 signed: the message, with the scalars r and s
Signed(message, r, s) ==
    [pubkey |-> VerifyingKey(1), message |-> message, r |-> r, s |-> s]

\* the transaction around a crafted payload: nothing, the payload itself, or
\* the payload and an instruction of 100 zero bytes
SiblingKinds == {"none", "self", "self+zeros"}
Siblings(kind, payload) ==
    CASE kind = "none" -> <<>>
      [] kind = "self" -> <<payload>>
      [] OTHER -> <<payload, Zeros(100)>>
\* the length of the buffer an index selects (the payload's, of `total` bytes,
\* when the index selects none)
BufferLen(kind, idx, total) ==
    IF idx = 1 /\ kind = "self+zeros" THEN 100 ELSE total
IndexChoices == {U16_MAX, 0, 1, U16_MAX - 1}
\* offsets around the end of the buffer, for a field of len bytes
OffsetChoices(nat, len, buflen) ==
    {o \in {nat, buflen - len - 1, buflen - len, buflen - len + 1, U16_MAX} :
        0 <= o /\ o <= U16_MAX}
FocusChoices(nat, len, kind, total) ==
    UNION {{[idx |-> x, off |-> o] :
               o \in OffsetChoices(nat, len, BufferLen(kind, x, total))} :
           x \in IndexChoices}
ContextChoices(nat) ==
    {[idx |-> U16_MAX, off |-> nat], [idx |-> 0, off |-> nat],
     [idx |-> U16_MAX - 1, off |-> nat], [idx |-> U16_MAX, off |-> U16_MAX]}
SizeChoices(len) == {len, 0, 1, U16_MAX}

\* one record, its fields chosen freely, over a key, a signature and a message
\* that signer 1 signed
CraftRecord(sigf, pkf, msgf, size, message, kind) ==
    /\ pc = "input"
    /\ data' = Layout(0,
                   [ signature_offset             |-> sigf.off,
                     signature_instruction_index  |-> sigf.idx,
                     public_key_offset            |-> pkf.off,
                     public_key_instruction_index |-> pkf.idx,
                     message_data_offset          |-> msgf.off,
                     message_data_size            |-> size,
                     message_instruction_index    |-> msgf.idx ],
                   VerifyingKey(1), SignerR \o SignerLowS, message)
    /\ instruction_datas' = Siblings(kind, data')
    /\ signed' = {Signed(message, SignerR, SignerLowS)}
    /\ origin' = "crafted"
    /\ pc' = "ready"
    /\ UNCHANGED <<index, oracle, i, result, accesses>>

\* scalars at and around the bounds the verifier checks
BoundaryScalars ==
    { BnFromU32(0), one, BnFromU32(2), SignerLowS, SignerR,
      half_order, BnSub(order, half_order), BnSub(order, SignerLowS),
      BnSub(order, BnFromU32(2)), n_minus_one, order,
      [order EXCEPT ![32] = 82], Fill(32, 255) }
\* keys presented: the signer's, another key's, a wrong prefix, an x no key of
\* the model owns, zeros
PubkeyChoices ==
    { VerifyingKey(1), VerifyingKey(2), <<5>> \o Fill(32, 161),
      <<2>> \o Fill(32, 9), Zeros(COMPRESSED_PUBKEY_SERIALIZED_SIZE) }
\* a scalar a signature can hold: 1 .. n - 1
InSignerRange(x) == BnGt(x, BnFromU32(0)) /\ BnLt(x, order)

\* the builder's layout over chosen scalars and a chosen key; `genuine`: signer 1
\* did sign the message with these scalars
CraftScalars(r, s, pubkey, genuine) ==
    /\ pc = "input"
    /\ data' = Layout(0, BuilderOffsets(1), pubkey, r \o s, <<97>>)
    /\ instruction_datas' = <<data'>>
    /\ signed' = IF genuine /\ InSignerRange(r) /\ InSignerRange(s)
                 THEN {Signed(<<97>>, r, s)}
                 ELSE {}
    /\ origin' = "crafted"
    /\ pc' = "ready"
    /\ UNCHANGED <<index, oracle, i, result, accesses>>

\* the records of a multi-record payload, by what they point at
RecordKinds ==
    {"good", "sibling", "badindex", "badoffset", "range", "highs", "badkey",
     "forged"}
\* the data area of a multi-record payload that starts at `base`: the signer's
\* key, its signature, the same with n - s, one with r = 0, a key with a wrong
\* prefix, the message
MultiArea ==
    VerifyingKey(1)
        \o (SignerR \o SignerLowS)
        \o (SignerR \o BnSub(order, SignerLowS))
        \o (BnFromU32(0) \o SignerLowS)
        \o (<<5>> \o Fill(32, 161))
        \o <<97>>
MultiRecord(kind, base) ==
    LET idx == IF kind = "sibling" THEN 1 ELSE U16_MAX
    IN  [ signature_offset |->
              CASE kind = "highs" -> base + 97
                [] kind = "range" -> base + 161
                [] OTHER -> base + 33,
          signature_instruction_index |->
              IF kind = "badindex" THEN U16_MAX - 1 ELSE idx,
          public_key_offset |-> IF kind = "badkey" THEN base + 225 ELSE base,
          public_key_instruction_index |-> idx,
          message_data_offset |-> IF kind = "badoffset" THEN U16_MAX ELSE base + 258,
          message_data_size |-> IF kind = "forged" THEN 0 ELSE 1,
          message_instruction_index |-> idx ]
RECURSIVE MultiRecords(_, _, _)
MultiRecords(kinds, k, base) ==
    IF k > Len(kinds) THEN <<>>
    ELSE bytes_of(MultiRecord(kinds[k], base)) \o MultiRecords(kinds, k + 1, base)

\* a payload of Len(kinds) records, beside 100 zero bytes and itself
CraftMulti(kinds) ==
    /\ pc = "input"
    /\ data' = <<Len(kinds), 0>>
                   \o MultiRecords(kinds, 1, record_start(Len(kinds)))
                   \o MultiArea
    /\ instruction_datas' = <<Zeros(100), data'>>
    /\ signed' = {Signed(<<97>>, SignerR, SignerLowS)}
    /\ origin' = "crafted"
    /\ pc' = "ready"
    /\ UNCHANGED <<index, oracle, i, result, accesses>>

\* a record whose message (and, for pkoff = 1, key) lies over the head of the
\* payload itself; signer 1 signed the bytes the message range holds
CraftSelfRef(pad, moff, msize, pkoff) ==
    /\ pc = "input"
    /\ data' = Layout(pad,
                   [BuilderOffsets(msize) EXCEPT !.message_data_offset = moff,
                                                 !.public_key_offset = pkoff],
                   VerifyingKey(1), SignerR \o SignerLowS, <<>>)
    /\ instruction_datas' = <<data'>>
    /\ signed' = {Signed(SliceOf(data', moff, moff + msize), SignerR, SignerLowS)}
    /\ origin' = "crafted"
    /\ pc' = "ready"
    /\ UNCHANGED <<index, oracle, i, result, accesses>>

\* whether some record of the payload presents a well-prefixed key that no key
\* of the model owns: only then does the oracle matter
PresentsUnknownPoint ==
    /\ verify_header(data) = Ok
    /\ \E k \in 0..(data[1] - 1) :
           LET offsets == try_from_bytes(
                              SliceOf(data, record_start(k), record_start(k + 1)))
               pubkey == get_data_slice(data, instruction_datas,
                             offsets.public_key_instruction_index,
                             offsets.public_key_offset,
                             COMPRESSED_PUBKEY_SERIALIZED_SIZE)
           IN  /\ pubkey.err = Ok
               /\ pubkey.bytes \notin KnownPoints
               /\ pubkey.bytes[1] \in {2, 3}

\* verify, lines 102-115: the size checks
VerifyEnter(o) ==
    /\ pc \in {"built", "ready"}
    /\ o => PresentsUnknownPoint
    /\ oracle' = o
    /\ accesses' = IF Len(data) >= 1 THEN {<<"header", Len(data), 0, 1>>} ELSE {}
    /\ IF verify_header(data) # Ok
       THEN /\ result' = verify_header(data)
            /\ pc' = "done"
            /\ i' = i
       ELSE /\ pc' = "loop"
            /\ i' = 0
            /\ result' = result
    /\ UNCHANGED <<data, instruction_datas, signed, origin, index>>

\* the loop going on to the next record after a record failed
VerifyLoopKeepsGoing ==
    /\ pc = "loop"
    /\ i < data[1]
    /\ LET rec == verify_record(data, instruction_datas, i, signed, oracle)
       IN  /\ accesses' = accesses \cup rec.acc
           /\ i' = i + 1
           /\ result' = IF rec.res = Ok THEN result ELSE rec.res
           /\ pc' = pc
    /\ UNCHANGED <<data, instruction_datas, signed, origin, index, oracle>>

\* verify, lines 116-199: one iteration of the loop
VerifyLoop ==
    /\ pc = "loop"
    /\ i < data[1]
    /\ LET rec == verify_record(data, instruction_datas, i, signed, oracle)
       IN  /\ accesses' = accesses \cup rec.acc
           /\ IF rec.res = Ok
              THEN /\ i' = i + 1
                   /\ UNCHANGED <<pc, result>>
              ELSE /\ result' = rec.res
                   /\ pc' = "done"
                   /\ i' = i
    /\ UNCHANGED <<data, instruction_datas, signed, origin, index, oracle>>

\* verify, line 200: the loop is over
VerifyReturn ==
    /\ pc = "loop"
    /\ i >= data[1]
    /\ result' = Ok
    /\ pc' = "done"
    /\ UNCHANGED <<data, instruction_datas, signed, origin, index, oracle, i,
                   accesses>>

SizedNums == {0, 1, 2, MaxSigs, 255}
SizedLens == 0..(SIGNATURE_OFFSETS_START + SIGNATURE_OFFSETS_SERIALIZED_SIZE * MaxSigs + 1)
                 \cup {3571, 3572, 3573}
SiblingLists == {<<>>, <<Zeros(100)>>}

Next ==
    \/ /\ pc = "input"
       /\ \E signer \in Signers, message \in Messages, sig \in SignerScalars :
              Build(signer, message, sig)
    \/ /\ pc = "built"
       /\ \E at \in TamperIndexes, value \in 0..255 : Tamper(at, value)
    \/ /\ pc = "input"
       /\ \E num \in SizedNums, pad \in {0, 7}, len \in SizedLens,
             siblings \in SiblingLists :
              CraftSized(num, pad, len, siblings)
    \/ /\ pc = "input"
       /\ \E focus \in {"sig", "pk", "msg"}, message \in {<<>>, <<97, 97>>},
             kind \in SiblingKinds :
            LET total == Len(Layout(0, BuilderOffsets(0), VerifyingKey(1),
                                    SignerR \o SignerLowS, message))
                nat == BuilderOffsets(Len(message))
            IN  \E sigf \in IF focus = "sig"
                            THEN FocusChoices(nat.signature_offset,
                                     SIGNATURE_SERIALIZED_SIZE, kind, total)
                            ELSE ContextChoices(nat.signature_offset),
                   pkf \in IF focus = "pk"
                           THEN FocusChoices(nat.public_key_offset,
                                    COMPRESSED_PUBKEY_SERIALIZED_SIZE, kind, total)
                           ELSE ContextChoices(nat.public_key_offset),
                   size \in IF focus = "msg" THEN SizeChoices(Len(message))
                            ELSE {Len(message)} :
                    \E msgf \in IF focus = "msg"
                                THEN FocusChoices(nat.message_data_offset, size,
                                         kind, total)
                                ELSE ContextChoices(nat.message_data_offset) :
                        CraftRecord(sigf, pkf, msgf, size, message, kind)
    \/ /\ pc = "input"
       /\ \E r \in BoundaryScalars, s \in BoundaryScalars,
             pubkey \in PubkeyChoices, genuine \in BOOLEAN :
              CraftScalars(r, s, pubkey, genuine)
    \/ /\ pc = "input"
       /\ \E n \in 1..MaxSigs : \E kinds \in [1..n -> RecordKinds] :
              CraftMulti(kinds)
    \/ /\ pc = "input"
       /\ \E pad \in {0, 2, 7}, moff \in 0..2, msize \in 0..2,
             pkoff \in {1, DATA_START} :
              CraftSelfRef(pad, moff, msize, pkoff)
    \/ \E o \in BOOLEAN : VerifyEnter(o)
    \/ VerifyLoop
    \/ VerifyReturn

Spec == Init /\ [][Next]_vars

\* the run agrees with the function
RunIsVerify ==
    pc = "done" => result = verify(data, instruction_datas, signed, oracle)

\* ------------------------------------------------------------ claims
\* what the size checks are said to reject
SizeError ==
    \/ Len(data) < 2
    \/ data[1] = 0 /\ Len(data) > 2
    \/ Len(data) < 2 + 14 * data[1]
\* record k of the payload, and its three fields as <<signature, key, message>>
RecordAt(k) == try_from_bytes(SliceOf(data, 2 + 14 * k, 16 + 14 * k))
FieldsAt(k) ==
    LET o == RecordAt(k)
    IN  << [idx |-> o.signature_instruction_index, off |-> o.signature_offset,
            len |-> 64],
           [idx |-> o.public_key_instruction_index, off |-> o.public_key_offset,
            len |-> 33],
           [idx |-> o.message_instruction_index, off |-> o.message_data_offset,
            len |-> o.message_data_size] >>
IndexInRange(f) == f.idx = 65535 \/ f.idx < Len(instruction_datas)
BufferOf(f) == IF f.idx = 65535 THEN data ELSE instruction_datas[f.idx + 1]
Fits(f) == IndexInRange(f) /\ f.off + f.len <= Len(BufferOf(f))
BytesOf(f) == SliceOf(BufferOf(f), f.off, f.off + f.len)
Resolves(k) == \A j \in 1..3 : Fits(FieldsAt(k)[j])
ScalarR(k) == SubSeq(BytesOf(FieldsAt(k)[1]), 1, 32)
ScalarS(k) == SubSeq(BytesOf(FieldsAt(k)[1]), 33, 64)
\* the primitive would accept record k: its key signed its message with its r
\* and its s, or with n - s
WouldAccept(k) ==
    \E t \in signed :
        /\ t.pubkey = BytesOf(FieldsAt(k)[2])
        /\ t.message = BytesOf(FieldsAt(k)[3])
        /\ t.r = ScalarR(k)
        /\ (t.s = ScalarS(k) \/ t.s = BnSub(order, ScalarS(k)))

\* C1: for any key and any message, whatever its length, the record that
\* new_secp256r1_instruction writes gives the size of the whole message that
\* was appended, and verify accepts the payload.
C1_BuiltPayloadVerifies ==
    origin = "built" =>
        /\ \A t \in signed :
               /\ RecordAt(0).message_data_size = Len(t.message)
               /\ Len(data) = RecordAt(0).message_data_offset + Len(t.message)
        /\ pc = "done" => result = Ok

\* C2 (as stated): after one byte at an index other than 1 of a built payload is
\* replaced by another value, verify returns an error.
C2_TamperedPayloadFails ==
    (origin = "tampered" /\ pc = "done") => result \in PrecompileError

\* the bytes the modified record selects in the payload are those signed
SameBytesSelected ==
    /\ Resolves(0)
    /\ \E t \in signed :
        /\ BytesOf(FieldsAt(0)[1]) = t.r \o t.s
        /\ BytesOf(FieldsAt(0)[2]) = t.pubkey
        /\ BytesOf(FieldsAt(0)[3]) = t.message
\* C2 (amended): after one byte at an index other than 1 of a built payload is
\* replaced by another value, verify returns an error, unless the byte belongs
\* to signature_offset, public_key_offset or message_data_offset (indexes 2, 3,
\* 6, 7, 10, 11) and the record still selects bytes equal to the signature, key
\* and message that were signed; then, and only then, it returns Ok.
C2_TamperedFailsUnlessSameBytes ==
    (origin = "tampered" /\ pc = "done") =>
        /\ result \in PrecompileError \cup {Ok}
        /\ result = Ok <=>
               /\ index \in {2, 3, 6, 7, 10, 11}
               /\ SameBytesSelected
C2_Witness ==
    /\ origin = "tampered" /\ pc = "done"
    /\ index >= 49 /\ index < 113
    /\ result = InvalidSignature

\* C3: verify returns InvalidInstructionDataSize exactly when the payload has
\* fewer than 2 bytes, or no signatures and more than 2 bytes, or fewer than
\* 2 + 14 * num_signatures bytes; it has then taken no record and no slice; and
\* a payload of exactly the bytes <<0, x>> is Ok beside any instructions.
C3_SizeChecks ==
    pc = "done" =>
        /\ result = InvalidInstructionDataSize <=> SizeError
        /\ SizeError => accesses \subseteq {<<"header", Len(data), 0, 1>>}
        /\ (Len(data) = 2 /\ data[1] = 0) => result = Ok
C3_Witness ==
    /\ pc = "done"
    /\ Len(data) = 2 /\ data[1] = 0 /\ data[2] # 0
    /\ instruction_datas # <<>>
    /\ result = Ok

\* C4: with one record past the size checks, an instruction index that is not
\* 0xFFFF and not below the number of instructions gives InvalidDataOffsets,
\* whatever the rest holds; 0xFFFF selects the payload itself, so three 0xFFFF
\* fields that fit the payload never give InvalidDataOffsets.
C4_IndexOutOfRange ==
    (pc = "done" /\ ~SizeError /\ data[1] = 1) =>
        /\ (\E j \in 1..3 : ~IndexInRange(FieldsAt(0)[j]))
               => result = InvalidDataOffsets
        /\ (\A j \in 1..3 :
                /\ FieldsAt(0)[j].idx = 65535
                /\ FieldsAt(0)[j].off + FieldsAt(0)[j].len <= Len(data))
               => result # InvalidDataOffsets
C4_Witness ==
    /\ pc = "done" /\ ~SizeError /\ data[1] = 1
    /\ Fits(FieldsAt(0)[1]) /\ Fits(FieldsAt(0)[2])
    /\ FieldsAt(0)[3].idx = 1 /\ Len(instruction_datas) = 1
    /\ result = InvalidDataOffsets

\* C5: with one record past the size checks and its indexes in range, verify
\* returns InvalidDataOffsets exactly when some field has offset + length above
\* the length of its buffer; a field reached (those before it fit) is sliced
\* exactly when offset + length is at most that length; and when all three fit,
\* verify goes on to split the signature.
C5_OffsetBounds ==
    (pc = "done" /\ ~SizeError /\ data[1] = 1
        /\ \A j \in 1..3 : IndexInRange(FieldsAt(0)[j])) =>
        LET f == FieldsAt(0)
        IN  /\ result = InvalidDataOffsets <=>
                   \E j \in 1..3 : f[j].off + f[j].len > Len(BufferOf(f[j]))
            /\ \A j \in 1..3 :
                   (\A h \in 1..(j - 1) : Fits(f[h])) =>
                       (<<"slice", Len(BufferOf(f[j])), f[j].off,
                          f[j].off + f[j].len>> \in accesses
                            <=> f[j].off + f[j].len <= Len(BufferOf(f[j])))
            /\ Resolves(0) =>
                   /\ <<"split", 64, 0, 32>> \in accesses
                   /\ result \in {Ok, InvalidSignature, InvalidPublicKey}
C5_Witness ==
    /\ pc = "done" /\ ~SizeError /\ data[1] = 1
    /\ Resolves(0)
    /\ FieldsAt(0)[3].idx = 1
    /\ FieldsAt(0)[3].len = 1
    /\ FieldsAt(0)[3].off + 1 = Len(instruction_datas[2])
    /\ result = InvalidSignature

\* a scalar that is not strictly between 1 and n - 1
OutOfRange(x) == x = BnFromU32(0) \/ x = one \/ ~BnLt(x, n_minus_one)
\* C6: when the record verify stops at resolves and its r or s is not strictly
\* between 1 and n - 1, the result is InvalidSignature, whatever the key bytes;
\* and no payload with such a record is Ok.
C6_ScalarRange ==
    (pc = "done" /\ ~SizeError) =>
        /\ (i < data[1] /\ Resolves(i)
               /\ (OutOfRange(ScalarR(i)) \/ OutOfRange(ScalarS(i))))
               => result = InvalidSignature
        /\ result = Ok =>
               \A k \in 0..(data[1] - 1) :
                   /\ Resolves(k)
                   /\ ~OutOfRange(ScalarR(k)) /\ ~OutOfRange(ScalarS(k))
C6_Witness ==
    /\ pc = "done" /\ ~SizeError /\ data[1] = 1 /\ Resolves(0)
    /\ ScalarR(0) = n_minus_one
    /\ ScalarS(0) = SignerLowS
    /\ BytesOf(FieldsAt(0)[2])[1] = 5
    /\ result = InvalidSignature

\* C7: when the record verify stops at resolves and its s is above n >> 1, the
\* result is InvalidSignature, also for a key and scalars the primitive would
\* accept; no payload with such a record is Ok; s = n >> 1 passes: a single
\* record with it that the primitive accepts is Ok.
C7_LowS ==
    (pc = "done" /\ ~SizeError) =>
        /\ (i < data[1] /\ Resolves(i) /\ BnGt(ScalarS(i), half_order))
               => result = InvalidSignature
        /\ result = Ok =>
               \A k \in 0..(data[1] - 1) : ~BnGt(ScalarS(k), half_order)
        /\ (data[1] = 1 /\ Resolves(0) /\ ScalarS(0) = half_order
               /\ ~OutOfRange(ScalarR(0)) /\ WouldAccept(0))
               => result = Ok
C7_Witness ==
    /\ pc = "done" /\ ~SizeError /\ data[1] = 1 /\ Resolves(0)
    /\ ScalarS(0) = BnSub(order, SignerLowS)
    /\ ~OutOfRange(ScalarR(0))
    /\ WouldAccept(0)
    /\ result = InvalidSignature

\* byte 1 with other values
PadBytes == {0, 1, 2, 3, 7, 255}
CoversByte1 ==
    /\ ~SizeError
    /\ \E k \in 0..(data[1] - 1), j \in 1..3 :
           LET f == FieldsAt(k)[j]
           IN  f.idx = 65535 /\ f.off <= 1 /\ 1 < f.off + f.len
C9_NoOutOfBounds ==
    /\ result # Panic
    /\ pc = "done" => result \in PrecompileError \cup {Ok}
    /\ pc = "loop" => i <= data[1]
    /\ \A a \in accesses :
        /\ a[3] <= a[4] /\ a[4] <= a[2]
        /\ a[1] = "record" =>
               /\ a[2] = Len(data)
               /\ \E k \in 0..(data[1] - 1) :
                      a[3] = 2 + 14 * k /\ a[4] = 16 + 14 * k
        /\ a[1] = "split" => a[2] = 64
C9_Witness ==
    /\ pc = "done" /\ ~SizeError /\ data[1] = 1
    /\ FieldsAt(0)[3].off = 65535 /\ FieldsAt(0)[3].len = 65535
    /\ Fits(FieldsAt(0)[1]) /\ Fits(FieldsAt(0)[2])
    /\ result = InvalidDataOffsets

\* the result of record k alone
RecordResult(k) ==
    verify_record(data, instruction_datas, k, signed, oracle).res
\* C10: past the size checks, the result is Ok exactly when every record
\* passes, and else the error of the failing record of lowest index; the loop
\* is at record i only after records 0 .. i-1 passed.
C10_FirstFailure ==
    /\ (pc = "done" /\ ~SizeError) =>
           LET fails == {k \in 0..(data[1] - 1) : RecordResult(k) # Ok}
           IN  IF fails = {} THEN result = Ok
               ELSE LET first == CHOOSE k \in fails : \A h \in fails : k <= h
                    IN  result = RecordResult(first) /\ i = first
    /\ pc = "loop" => \A k \in 0..(i - 1) : RecordResult(k) = Ok
C10_Witness ==
    /\ pc = "done" /\ ~SizeError /\ data[1] = 3
    /\ RecordResult(0) = Ok
    /\ RecordResult(1) = InvalidSignature
    /\ RecordResult(2) = InvalidDataOffsets
    /\ result = InvalidSignature

====
